---------------------------- MODULE Spec2Model ----------------------------
(***************************************************************************)
(* The wattmeter kernel module (src/wattmeter-km.c): the interrupt handler *)
(* tomasgpio_irq_handler, the sysfs show/store callbacks and the module    *)
(* globals they share.  The handler and the callbacks run in different     *)
(* contexts with no lock between them, so every access to a shared global  *)
(* is a step of its own: the handler is split at each load and store of a  *)
(* global, and so are the callbacks that touch more than one word.         *)
(***************************************************************************)
EXTENDS Integers, Sequences, FiniteSets, TLC

(***************************************************************************)
(* Bounds of the model.                                                    *)
(***************************************************************************)
\* accepted pulses (handler invocations) in one behaviour
MaxPulses == 2
\* sysfs calls in one behaviour
MaxCalls == 2
\* the wall clock reads 1..MaxTick steps of ClockStep
MaxTick == 2
\* connections the file-transfer server accepts
MaxConns == 2
\* reads of the client that return a single byte of the many asked for
MaxShort == 2

(***************************************************************************)
(* Program constants.                                                      *)
(***************************************************************************)
\* #define DEBOUNCE_TIME 200
DEBOUNCE_TIME == 200
\* the errno of line 165; the model uses it for every failure result
ENOMEM == 12
\* userspace/CS-update: the bytes moved per fread/write and per read
CHUNK_SIZE == 1000
\* sizeof(fileSize), sizeof(length): the size field of the transfer
SIZE_FIELD == 4
\* NSEC_PER_SEC of linux/time.h, used by timespec_sub and getnstimeofday
NSEC_PER_SEC == 1000000000
\* static int numWattHours: a 32-bit two's complement int
INT_MAX == 2147483647
\* one 16-bit limb; a 32-bit word is held as two of them, so that arithmetic
\* modulo 2^32 never leaves the range of the model's own integers
LIMB == 256 * 256
\* the step of the modelled clock readings: 600 ms, in units of 100 ms
ClockStep == 2 * 3

INT_MIN == -INT_MAX - 1

(***************************************************************************)
(* Text: a buffer is a sequence of one-character strings.                  *)
(***************************************************************************)
DigitChars == <<"0", "1", "2", "3", "4", "5", "6", "7", "8", "9">>

IsDigit(c) == \E i \in 1..10 : DigitChars[i] = c

DigitVal(c) == (CHOOSE i \in 1..10 : DigitChars[i] = c) - 1

IsSpace(c) == c \in {" ", "\n", "\t"}

\* a 32-bit word as two 16-bit limbs <<hi, lo>>, from its value as a signed int
ToLimbs(x) == <<IF x < 0 THEN (x \div LIMB) + LIMB ELSE x \div LIMB, x % LIMB>>

\* the signed int a 32-bit word holds (the cast to int of vsscanf's "%d")
FromLimbs(w) ==
    IF w[1] >= LIMB \div 2 THEN (w[1] - LIMB) * LIMB + w[2] ELSE w[1] * LIMB + w[2]

\* w * 10 + d in 32-bit unsigned arithmetic (the digit loop of simple_strtoul,
\* followed by the truncation to 32 bits of the store through int *)
MulAdd10(w, d) ==
    LET lo == w[2] * 10 + d
        hi == w[1] * 10 + (lo \div LIMB)
    IN  <<hi % LIMB, lo % LIMB>>

\* 0 - w in 32-bit arithmetic
Neg32(w) ==
    IF w[2] = 0 THEN <<(LIMB - w[1]) % LIMB, 0>>
    ELSE <<(LIMB - 1 - w[1]) % LIMB, LIMB - w[2]>>

\* skip_spaces
RECURSIVE SkipSpaces(_)
SkipSpaces(s) ==
    IF s # <<>> /\ IsSpace(Head(s)) THEN SkipSpaces(Tail(s)) ELSE s

\* the digits at the front of s, accumulated into a 32-bit word
RECURSIVE ScanDigits(_, _)
ScanDigits(s, w) ==
    IF s # <<>> /\ IsDigit(Head(s))
    THEN ScanDigits(Tail(s), MulAdd10(w, DigitVal(Head(s))))
    ELSE w

\* sscanf(buf, "%du", &x): white space is skipped, an optional '-' and at least
\* one digit are converted and stored through the pointer; the 'u' of the format
\* is a literal that is matched after the store and changes nothing.  The result
\* is [ok |-> a value was stored, val |-> the int stored].
ScanInt(buf) ==
    LET s   == SkipSpaces(buf)
        neg == s # <<>> /\ Head(s) = "-"
        t   == IF neg THEN Tail(s) ELSE s
    IN  IF t = <<>> \/ ~IsDigit(Head(t))
        THEN [ok |-> FALSE, val |-> 0]
        ELSE LET w == ScanDigits(t, <<0, 0>>)
             IN  [ok |-> TRUE, val |-> FromLimbs(IF neg THEN Neg32(w) ELSE w)]

\* the decimal digits of an unsigned 32-bit word (the %u / %lu conversion)
RECURSIVE UDec(_)
UDec(w) ==
    LET qh == w[1] \div 10
        r1 == (w[1] % 10) * LIMB + w[2]
        ql == r1 \div 10
        d  == r1 % 10
    IN  IF qh = 0 /\ ql = 0 THEN <<DigitChars[d + 1]>>
        ELSE UDec(<<qh, ql>>) \o <<DigitChars[d + 1]>>

\* left padding with '0' to a minimum number of digits (the precision of %.2lu, %.9lu)
RECURSIVE ZeroPad(_, _)
ZeroPad(s, n) == IF Len(s) >= n THEN s ELSE ZeroPad(<<"0">> \o s, n)

\* sprintf "%d"
FmtD(x) == IF x < 0 THEN <<"-">> \o UDec(Neg32(ToLimbs(x))) ELSE UDec(ToLimbs(x))

\* sprintf "%lu" and "%.<n>lu" of a long (32-bit): the word is printed as unsigned
FmtLu(x, n) == ZeroPad(UDec(ToLimbs(x)), n)

(***************************************************************************)
(* Time.                                                                   *)
(***************************************************************************)
Timespec(s, n) == [tv_sec |-> s, tv_nsec |-> n]

\* set_normalized_timespec, for the one borrow or carry two normalised
\* operands can need
set_normalized_timespec(sec, nsec) ==
    IF nsec >= NSEC_PER_SEC THEN Timespec(sec + 1, nsec - NSEC_PER_SEC)
    ELSE IF nsec < 0 THEN Timespec(sec - 1, nsec + NSEC_PER_SEC)
    ELSE Timespec(sec, nsec)

\* timespec_sub(lhs, rhs)
timespec_sub(lhs, rhs) ==
    set_normalized_timespec(lhs.tv_sec - rhs.tv_sec, lhs.tv_nsec - rhs.tv_nsec)

\* the reading k steps of the modelled clock after the epoch
Tick(k) == Timespec((k * ClockStep) \div 10, ((k * ClockStep) % 10) * (NSEC_PER_SEC \div 10))

\* the readings getnstimeofday can return
ClockValues == {Tick(k) : k \in 1..MaxTick}

Before(a, b) ==
    a.tv_sec < b.tv_sec \/ (a.tv_sec = b.tv_sec /\ a.tv_nsec < b.tv_nsec)

(***************************************************************************)
(* State.                                                                  *)
(***************************************************************************)
VARIABLES
    \* the module globals (lines 40-43)
    numWattHours, ledOn, isDebounce, ts_last, ts_current, ts_diff,
    \* the hardware: the level driven on gpioLED and the debounce window (ms)
    \* programmed on gpioMeter
    gpioLED, gpioDebounce,
    \* the interrupt handler: its position, and the register holding the count
    \* between the load and the store of numWattHours++
    hpc, hreg,
    \* the sysfs call in progress or last completed: the callback, its position,
    \* its buffer (the text written by the caller of a store, the text a show
    \* has printed), isDebounce_store's local temp, the words a show callback
    \* has loaded, and the value returned
    op, apc, buf, temp, aloaded, ret,
    \* history: the handler invocations completed and the sysfs calls begun
    nPulses, nCalls,
    \* history: the count stored by the last numWattHours_store (0 at load), the
    \* invocations completed since, and whether that store fell inside an
    \* invocation (the sequence then starts afresh when the invocation ends)
    seqBase, seqN, seqTaint,
    \* history: every complete value ts_last has held; the value of ts_last the
    \* current (or last) invocation found
    lastGens, prevLast,
    \* the module's life: the position of tomasMeter_init or tomasMeter_exit,
    \* the value tomasMeter_init returned, the sysfs entry ("null", "kobject",
    \* "group" once the attribute group is published), the lines gpio_request
    \* holds, the lines exported, whether the interrupt handler is registered
    lpc, result, tomas_kobj, requested, exported, irqRegistered,
    \* history: the clock reading tomasMeter_init took
    startReading,
    \* history: the raw transitions the input line's debounce has discarded
    nDropped,
    \* the file-transfer server (userspace/CS-update/server/main.c): its
    \* position, the -b option, the file opened for the connection and the read
    \* position in it, main's locals, and what the accepted connection has
    \* carried: bytes of the size field, bytes of content, whether a write to
    \* the socket failed; history: the connections accepted
    spc, countBytes, fp, fpos, fileSize, numWritten, numToWrite,
    hdrBytes, sentBytes, sockFailed, nConns,
    \* the file-transfer client (userspace/CS-update/client/main.c): its
    \* position, main's locals (lenbuf is the four bytes of length as read,
    \* buffer the chunk buffer), readXBytes' numRead and numToRead (xn, xwant),
    \* the bytes written to the output, the peer (what it announces and sends)
    \* and the bytes of its stream consumed; history: the short reads, whether
    \* a read met the end of the stream or an error
    cpc, length, numRead, numToRead, retval, lenbuf, buffer, xn, xwant,
    out, peer, rpos, nShort, sawEnd,
    \* history of the server: the accepted connections and the files it holds
    \* open, whether sending the content to the current connection has failed
    sockOpen, fileOpen, bodyFailed,
    \* the rate program (userspace/basic-power/power.c): its position, main's
    \* diffTime (in tenths of a second) and power
    wpc, diffTime, power,
    \* the -p option of the server and of the client: the argument given, what
    \* parsePort returned and what main made of it (not yet set, error(), or
    \* the sin_port it goes on with)
    srvPortArg, srvPort, srvBound, cliPortArg, cliPort, cliBound

globals == <<numWattHours, ledOn, isDebounce, ts_last, ts_current, ts_diff>>
hw      == <<gpioLED, gpioDebounce>>
handler == <<hpc, hreg>>
call    == <<op, apc, buf, temp, aloaded, ret>>
seq     == <<seqBase, seqN, seqTaint>>
hist    == <<nPulses, nCalls, seq, lastGens, prevLast>>
life    == <<lpc, result, tomas_kobj, requested, exported, irqRegistered,
             startReading>>
server  == <<spc, countBytes, fp, fpos, fileSize, numWritten, numToWrite,
             hdrBytes, sentBytes, sockFailed, nConns>>
client  == <<cpc, length, numRead, numToRead, retval, lenbuf, buffer, xn, xwant,
             out, peer, rpos, nShort, sawEnd>>
srvHist == <<sockOpen, fileOpen, bodyFailed>>
powerc  == <<wpc, diffTime, power>>
ports   == <<srvPortArg, srvPort, srvBound, cliPortArg, cliPort, cliBound>>
\* the programs of src/userspace, which share no state with the module
userspace == <<server, client, srvHist, powerc, ports>>
\* what the handler and the sysfs callbacks never touch
outside == <<life, nDropped, userspace>>
vars    == <<globals, hw, handler, call, hist, outside>>

\* no file stream: fp = NULL
NoFile == [size |-> -1, data |-> -1]

\* a peer: the size it announces, the bytes of the size field and of content
\* it sends before it closes
Peer(len, hdr, data) == [len |-> len, hdr |-> hdr, data |-> data]

\* The userspace programs before they are started.
ServerIdle ==
    /\ spc = "off" /\ countBytes = FALSE /\ fp = NoFile /\ fpos = 0
    /\ fileSize = 0 /\ numWritten = 0 /\ numToWrite = 0
    /\ hdrBytes = 0 /\ sentBytes = 0 /\ sockFailed = FALSE /\ nConns = 0
    /\ sockOpen = 0 /\ fileOpen = 0 /\ bodyFailed = FALSE

ClientIdle ==
    /\ cpc = "off" /\ length = 0 /\ numRead = 0 /\ numToRead = 0 /\ retval = 0
    /\ lenbuf = <<0, 0, 0, 0>> /\ buffer = {} /\ xn = 0 /\ xwant = 0
    /\ out = <<>> /\ peer = Peer(0, 0, 0) /\ rpos = 0 /\ nShort = 0
    /\ sawEnd = FALSE

PowerIdle == wpc = "off" /\ diffTime = 0 /\ power = 0

\* an argument of parsePort: a string, or NULL
Arg(text) == [null |-> FALSE, text |-> text]
NullArg == [null |-> TRUE, text |-> <<>>]

\* what main has made of the port
PortUnset == [st |-> "unset", sin_port |-> 0]
PortExit == [st |-> "exit", sin_port |-> 0]
PortSet(n) == [st |-> "set", sin_port |-> n]

PortsIdle ==
    /\ srvPortArg = NullArg /\ srvPort = -1 /\ srvBound = PortUnset
    /\ cliPortArg = NullArg /\ cliPort = -1 /\ cliBound = PortUnset

UserspaceIdle == ServerIdle /\ ClientIdle /\ PowerIdle /\ PortsIdle

NoBuf == <<>>

\* The clock reading tomasMeter_init takes (line 174) in the modelled behaviours.
StartTime == Tick(1)

\* The state after a successful tomasMeter_init (lines 174-186, 201-206).
ModuleLoaded ==
    /\ numWattHours = 0
    /\ ledOn = TRUE
    /\ isDebounce = TRUE
    /\ ts_last = StartTime
    /\ ts_current = Timespec(0, 0)
    /\ ts_diff = timespec_sub(StartTime, StartTime)
    /\ gpioLED = TRUE
    /\ gpioDebounce = DEBOUNCE_TIME
    /\ hpc = "idle" /\ hreg = 0
    /\ op = "none" /\ apc = "idle" /\ buf = NoBuf /\ temp = 0 /\ aloaded = <<>>
    /\ ret = 0
    /\ nPulses = 0 /\ nCalls = 0
    /\ seqBase = 0 /\ seqN = 0 /\ seqTaint = FALSE
    /\ lastGens = {StartTime} /\ prevLast = StartTime
    /\ lpc = "running" /\ result = 0
    /\ tomas_kobj = "group"
    /\ requested = {"gpioLED", "gpioMeter"}
    /\ exported = {"gpioLED", "gpioMeter"}
    /\ irqRegistered = TRUE
    /\ startReading = StartTime
    /\ nDropped = 0

Init == ModuleLoaded /\ UserspaceIdle

(***************************************************************************)
(* tomasgpio_irq_handler (lines 235-244).  The interrupt line is masked    *)
(* while the handler runs, so one invocation is in progress at a time;     *)
(* nothing orders its steps against the sysfs callbacks.                   *)
(***************************************************************************)
\* mutant of Inc32: the increment is lost
Inc32_Lost(x) == x

\* numWattHours++ on a 32-bit int; the kernel is built with
\* -fno-strict-overflow, so the increment of INT_MAX wraps to INT_MIN
Inc32(x) == IF x = INT_MAX THEN INT_MIN ELSE x + 1

\* the interrupt fires for an accepted edge
irq_enter ==
    /\ irqRegistered
    /\ hpc = "idle"
    /\ nPulses < MaxPulses
    /\ hpc' = "l236"
    /\ prevLast' = ts_last
    /\ UNCHANGED <<globals, hw, hreg, call, nPulses, nCalls, seq, lastGens>>
    /\ UNCHANGED outside

\* mutant of irq_236: the LED state is not inverted
irq_236_NoToggle ==
    /\ hpc = "l236"
    /\ hpc' = "l237"
    /\ UNCHANGED <<globals, hw, hreg, call, hist>>
    /\ UNCHANGED outside

\* ledOn = !ledOn;
irq_236 ==
    /\ hpc = "l236"
    /\ ledOn' = ~ledOn
    /\ hpc' = "l237"
    /\ UNCHANGED <<numWattHours, isDebounce, ts_last, ts_current, ts_diff, hw,
                   hreg, call, hist>>
    /\ UNCHANGED outside

\* mutant of irq_237: the line is driven to the opposite level
irq_237_Inverted ==
    /\ hpc = "l237"
    /\ gpioLED' = ~ledOn
    /\ hpc' = "l238"
    /\ UNCHANGED <<globals, gpioDebounce, hreg, call, hist>>
    /\ UNCHANGED outside

\* gpio_set_value(gpioLED, ledOn);
irq_237 ==
    /\ hpc = "l237"
    /\ gpioLED' = ledOn
    /\ hpc' = "l238"
    /\ UNCHANGED <<globals, gpioDebounce, hreg, call, hist>>
    /\ UNCHANGED outside

\* getnstimeofday(&ts_current): the wall clock.  Since the reading held in
\* ts_last it has advanced, or stands where it stood, or was set back
\* (settimeofday).
irq_238 ==
    /\ hpc = "l238"
    /\ ts_current' \in ClockValues
    /\ hpc' = "l239_sec"
    /\ UNCHANGED <<numWattHours, ledOn, isDebounce, ts_last, ts_diff, hw,
                   hreg, call, hist>>
    /\ UNCHANGED outside

\* ts_diff = timespec_sub(ts_current, ts_last);  the store of tv_sec
irq_239_sec ==
    /\ hpc = "l239_sec"
    /\ ts_diff' = [ts_diff EXCEPT !.tv_sec = timespec_sub(ts_current, ts_last).tv_sec]
    /\ hpc' = "l239_nsec"
    /\ UNCHANGED <<numWattHours, ledOn, isDebounce, ts_last, ts_current, hw,
                   hreg, call, hist>>
    /\ UNCHANGED outside

\* ts_diff = timespec_sub(ts_current, ts_last);  the store of tv_nsec
irq_239_nsec ==
    /\ hpc = "l239_nsec"
    /\ ts_diff' = [ts_diff EXCEPT !.tv_nsec = timespec_sub(ts_current, ts_last).tv_nsec]
    /\ hpc' = "l240_sec"
    /\ UNCHANGED <<numWattHours, ledOn, isDebounce, ts_last, ts_current, hw,
                   hreg, call, hist>>
    /\ UNCHANGED outside

\* ts_last = ts_current;  the store of tv_sec
irq_240_sec ==
    /\ hpc = "l240_sec"
    /\ ts_last' = [ts_last EXCEPT !.tv_sec = ts_current.tv_sec]
    /\ hpc' = "l240_nsec"
    /\ UNCHANGED <<numWattHours, ledOn, isDebounce, ts_current, ts_diff, hw,
                   hreg, call, hist>>
    /\ UNCHANGED outside

\* ts_last = ts_current;  the store of tv_nsec
irq_240_nsec ==
    /\ hpc = "l240_nsec"
    /\ ts_last' = [ts_last EXCEPT !.tv_nsec = ts_current.tv_nsec]
    /\ lastGens' = lastGens \cup {ts_last'}
    /\ hpc' = "l242_load"
    /\ UNCHANGED <<numWattHours, ledOn, isDebounce, ts_current, ts_diff, hw,
                   hreg, call, nPulses, nCalls, seq, prevLast>>
    /\ UNCHANGED outside

\* mutant of irq_242_load: the handler waits until no sysfs call is in progress
irq_242_load_Waits ==
    /\ hpc = "l242_load"
    /\ apc = "idle"
    /\ hreg' = numWattHours
    /\ hpc' = "l242_store"
    /\ UNCHANGED <<globals, hw, call, hist>>
    /\ UNCHANGED outside

\* numWattHours++;  the load
irq_242_load ==
    /\ hpc = "l242_load"
    /\ hreg' = numWattHours
    /\ hpc' = "l242_store"
    /\ UNCHANGED <<globals, hw, call, hist>>
    /\ UNCHANGED outside

\* numWattHours++;  the store, and the return of IRQ_HANDLED
irq_242_store ==
    /\ hpc = "l242_store"
    /\ numWattHours' = Inc32(hreg)
    /\ hpc' = "idle"
    /\ hreg' = 0
    /\ nPulses' = nPulses + 1
    /\ IF seqTaint
       THEN seqBase' = numWattHours' /\ seqN' = 0
       ELSE seqBase' = seqBase /\ seqN' = seqN + 1
    /\ seqTaint' = FALSE
    /\ UNCHANGED <<ledOn, isDebounce, ts_last, ts_current, ts_diff, hw,
                   call, nCalls, lastGens, prevLast>>
    /\ UNCHANGED outside

\* the steps of an invocation once it has been entered
irq_steps ==
    \/ irq_236
    \/ irq_237
    \/ irq_238
    \/ irq_239_sec
    \/ irq_239_nsec
    \/ irq_240_sec
    \/ irq_240_nsec
    \/ irq_242_load
    \/ irq_242_store

tomasgpio_irq_handler ==
    \/ irq_enter
    \/ irq_steps

(***************************************************************************)
(* The input line's debounce, as gpio_set_debounce (lines 96-101, 186)     *)
(* configures it: with a window of w > 0 a raw transition that follows the *)
(* previous accepted one by less than w is discarded before it raises the  *)
(* interrupt; with w = 0 every transition raises it.  A raw transition is  *)
(* given by its gap g to the previous accepted transition, in the unit of  *)
(* DEBOUNCE_TIME.                                                          *)
(***************************************************************************)
Gaps == {DEBOUNCE_TIME \div 4, DEBOUNCE_TIME + DEBOUNCE_TIME \div 4}

EdgeFilterAccepts(g) == gpioDebounce = 0 \/ g >= gpioDebounce

\* a raw transition that raises the interrupt
edge_accept(g) ==
    /\ EdgeFilterAccepts(g)
    /\ irq_enter

\* a raw transition the debounce discards
edge_discard(g) ==
    /\ ~EdgeFilterAccepts(g)
    /\ nDropped < MaxPulses
    /\ nDropped' = nDropped + 1
    /\ UNCHANGED <<globals, hw, handler, call, hist, life>>
    /\ UNCHANGED userspace

(***************************************************************************)
(* The sysfs callbacks (lines 54-105).  One call is followed at a time; it *)
(* runs in process context, in any interleaving with the handler's steps.  *)
(***************************************************************************)
\* the texts a caller writes to numWattHours
CountInputs ==
    { <<"0">>, <<"2", "1", "4", "7", "4", "8", "3", "6", "4", "7">>,
      <<"3", "0", "0", "0", "0", "0", "0", "0", "0", "0">>, <<"a", "b", "c">> }

\* the texts a caller writes to isDebounce
DebounceInputs == { <<"0">>, <<"1">>, <<"x">> }

\* what an uninitialised unsigned int can hold, as far as its one use (the
\* conversion to bool) can tell
GarbageWords == {0, 1}

BoolInt(b) == IF b THEN 1 ELSE 0

\* C's / and % on long: the quotient is truncated towards zero
CDiv(a, b) == IF a >= 0 THEN a \div b ELSE -((-a) \div b)

CMod(a, b) == a - b * CDiv(a, b)

\* the callback returns r: the call is complete
Return(name, r) ==
    /\ op' = name
    /\ apc' = "idle"
    /\ ret' = r

\* a caller enters a callback
Call == apc = "idle" /\ nCalls < MaxCalls /\ nCalls' = nCalls + 1

\* sprintf(buf, "%d\n", numWattHours)
numWattHours_showText(n) == FmtD(n) \o <<"\n">>

\* mutant of numWattHours_show: the read also resets the count
numWattHours_show_Resets ==
    /\ Call
    /\ buf' = numWattHours_showText(numWattHours)
    /\ numWattHours' = 0
    /\ Return("numWattHours_show", Len(buf'))
    /\ aloaded' = <<>>
    /\ UNCHANGED <<ledOn, isDebounce, ts_last, ts_current, ts_diff, hw, handler,
                   temp, nPulses, seq, lastGens, prevLast>>
    /\ UNCHANGED outside

\* return sprintf(buf, "%d\n", numWattHours);
numWattHours_show ==
    /\ Call
    /\ buf' = numWattHours_showText(numWattHours)
    /\ Return("numWattHours_show", Len(buf'))
    /\ aloaded' = <<>>
    /\ UNCHANGED <<globals, hw, handler, temp, nPulses, seq, lastGens, prevLast>>
    /\ UNCHANGED outside

\* mutant of numWattHours_store: the reset clears the interval too
numWattHours_store_ClearsInterval(text) ==
    /\ Call
    /\ numWattHours' = IF ScanInt(text).ok THEN ScanInt(text).val ELSE numWattHours
    /\ ts_diff' = Timespec(0, 0)
    /\ buf' = text
    /\ Return("numWattHours_store", Len(text))
    /\ aloaded' = <<>>
    /\ IF ScanInt(text).ok
       THEN /\ seqBase' = ScanInt(text).val
            /\ seqN' = 0
            /\ seqTaint' = (hpc # "idle")
       ELSE UNCHANGED seq
    /\ UNCHANGED <<ledOn, isDebounce, ts_last, ts_current, hw, handler,
                   temp, nPulses, lastGens, prevLast>>
    /\ UNCHANGED outside

\* sscanf(buf, "%du", &numWattHours); return count;
numWattHours_store(text) ==
    /\ Call
    /\ numWattHours' = IF ScanInt(text).ok THEN ScanInt(text).val ELSE numWattHours
    /\ buf' = text
    /\ Return("numWattHours_store", Len(text))
    /\ aloaded' = <<>>
    /\ IF ScanInt(text).ok
       THEN /\ seqBase' = ScanInt(text).val
            /\ seqN' = 0
            /\ seqTaint' = (hpc # "idle")
       ELSE UNCHANGED seq
    /\ UNCHANGED <<ledOn, isDebounce, ts_last, ts_current, ts_diff, hw, handler,
                   temp, nPulses, lastGens, prevLast>>
    /\ UNCHANGED outside

\* return sprintf(buf, "%d\n", ledOn);
ledOn_show ==
    /\ Call
    /\ buf' = FmtD(BoolInt(ledOn)) \o <<"\n">>
    /\ Return("ledOn_show", Len(buf'))
    /\ aloaded' = <<>>
    /\ UNCHANGED <<globals, hw, handler, temp, nPulses, seq, lastGens, prevLast>>
    /\ UNCHANGED outside

\* mutant of lastTime_showText: the hours are not reduced modulo 24
lastTime_showText_NoMod24(w) ==
    FmtLu(CDiv(w[1], 3600), 2) \o <<":">>
        \o FmtLu(CMod(CDiv(w[2], 60), 60), 2) \o <<":">>
        \o FmtLu(CMod(w[3], 60), 2) \o <<":">>
        \o FmtLu(w[4], 9) \o <<" ", "\n">>

\* sprintf(buf, "%.2lu:%.2lu:%.2lu:%.9lu \n", ...) of the four words loaded
lastTime_showText(w) ==
    FmtLu(CMod(CDiv(w[1], 3600), 24), 2) \o <<":">>
        \o FmtLu(CMod(CDiv(w[2], 60), 60), 2) \o <<":">>
        \o FmtLu(CMod(w[3], 60), 2) \o <<":">>
        \o FmtLu(w[4], 9) \o <<" ", "\n">>

\* lastTime_show: the loads of ts_last.tv_sec for the hours, the minutes and
\* the seconds (lines 78-79)
lastTime_show_sec ==
    /\ \/ Call /\ aloaded' = <<ts_last.tv_sec>>
       \/ /\ op = "lastTime_show" /\ apc = "sec"
          /\ aloaded' = Append(aloaded, ts_last.tv_sec)
          /\ nCalls' = nCalls
    /\ op' = "lastTime_show"
    /\ apc' = IF Len(aloaded') = 3 THEN "nsec" ELSE "sec"
    /\ UNCHANGED <<globals, hw, handler, buf, temp, ret, nPulses, seq, lastGens, prevLast>>
    /\ UNCHANGED outside

\* lastTime_show: the load of ts_last.tv_nsec, and the return
lastTime_show_nsec ==
    /\ op = "lastTime_show" /\ apc = "nsec"
    /\ aloaded' = Append(aloaded, ts_last.tv_nsec)
    /\ buf' = lastTime_showText(aloaded')
    /\ Return("lastTime_show", Len(buf'))
    /\ UNCHANGED <<globals, hw, handler, temp, hist>>
    /\ UNCHANGED outside

\* sprintf(buf, "%lu.%.9lu\n", ts_diff.tv_sec, ts_diff.tv_nsec) of the words loaded
diffTime_showText(w) == FmtLu(w[1], 1) \o <<".">> \o FmtLu(w[2], 9) \o <<"\n">>

\* diffTime_show: the load of ts_diff.tv_sec (line 84)
diffTime_show_sec ==
    /\ Call
    /\ op' = "diffTime_show"
    /\ apc' = "nsec"
    /\ aloaded' = <<ts_diff.tv_sec>>
    /\ UNCHANGED <<globals, hw, handler, buf, temp, ret, nPulses, seq, lastGens, prevLast>>
    /\ UNCHANGED outside

\* diffTime_show: the load of ts_diff.tv_nsec, and the return
diffTime_show_nsec ==
    /\ op = "diffTime_show" /\ apc = "nsec"
    /\ aloaded' = Append(aloaded, ts_diff.tv_nsec)
    /\ buf' = diffTime_showText(aloaded')
    /\ Return("diffTime_show", Len(buf'))
    /\ UNCHANGED <<globals, hw, handler, temp, hist>>
    /\ UNCHANGED outside

\* return sprintf(buf, "%d\n", isDebounce);
isDebounce_show ==
    /\ Call
    /\ buf' = FmtD(BoolInt(isDebounce)) \o <<"\n">>
    /\ Return("isDebounce_show", Len(buf'))
    /\ aloaded' = <<>>
    /\ UNCHANGED <<globals, hw, handler, temp, nPulses, seq, lastGens, prevLast>>
    /\ UNCHANGED outside

\* isDebounce_store, line 95: unsigned int temp; sscanf(buf, "%du", &temp);
\* when nothing is converted temp keeps whatever the stack held
isDebounce_store_95(text) ==
    /\ Call
    /\ op' = "isDebounce_store"
    /\ buf' = text
    /\ IF ScanInt(text).ok
       THEN temp' = ScanInt(text).val
       ELSE temp' \in GarbageWords
    /\ apc' = "l96"
    /\ aloaded' = <<>>
    /\ UNCHANGED <<globals, hw, handler, ret, nPulses, seq, lastGens, prevLast>>
    /\ UNCHANGED outside

\* line 96: gpio_set_debounce(gpioMeter, 0);
isDebounce_store_96 ==
    /\ op = "isDebounce_store" /\ apc = "l96"
    /\ gpioDebounce' = 0
    /\ apc' = "l97"
    /\ UNCHANGED <<globals, gpioLED, handler, op, buf, temp, aloaded, ret, hist>>
    /\ UNCHANGED outside

\* mutant of isDebounce_store_97: the write also clears ledOn
isDebounce_store_97_ClearsMirror ==
    /\ op = "isDebounce_store" /\ apc = "l97"
    /\ isDebounce' = (temp # 0)
    /\ ledOn' = FALSE
    /\ temp' = 0
    /\ apc' = "l98"
    /\ UNCHANGED <<numWattHours, ts_last, ts_current, ts_diff, hw,
                   handler, op, buf, aloaded, ret, hist>>
    /\ UNCHANGED outside

\* line 97: isDebounce = temp;  (unsigned int -> bool); temp is dead afterwards
isDebounce_store_97 ==
    /\ op = "isDebounce_store" /\ apc = "l97"
    /\ isDebounce' = (temp # 0)
    /\ temp' = 0
    /\ apc' = "l98"
    /\ UNCHANGED <<numWattHours, ledOn, ts_last, ts_current, ts_diff, hw,
                   handler, op, buf, aloaded, ret, hist>>
    /\ UNCHANGED outside

\* mutant of isDebounce_store_98: the debounce time is set whatever the flag
isDebounce_store_98_AlwaysOn ==
    /\ op = "isDebounce_store" /\ apc = "l98"
    /\ gpioDebounce' = DEBOUNCE_TIME
    /\ Return("isDebounce_store", Len(buf))
    /\ UNCHANGED <<globals, gpioLED, handler, buf, temp, aloaded, hist>>
    /\ UNCHANGED outside

\* lines 98-104: gpio_set_debounce(gpioMeter, DEBOUNCE_TIME) or (gpioMeter, 0);
\* return count;
isDebounce_store_98 ==
    /\ op = "isDebounce_store" /\ apc = "l98"
    /\ gpioDebounce' = IF isDebounce THEN DEBOUNCE_TIME ELSE 0
    /\ Return("isDebounce_store", Len(buf))
    /\ UNCHANGED <<globals, gpioLED, handler, buf, temp, aloaded, hist>>
    /\ UNCHANGED outside

Next ==
    \/ tomasgpio_irq_handler
    \/ numWattHours_show
    \/ \E text \in CountInputs : numWattHours_store(text)
    \/ ledOn_show
    \/ lastTime_show_sec
    \/ lastTime_show_nsec
    \/ diffTime_show_sec
    \/ diffTime_show_nsec
    \/ isDebounce_show
    \/ \E text \in DebounceInputs : isDebounce_store_95(text)
    \/ isDebounce_store_96
    \/ isDebounce_store_97
    \/ isDebounce_store_98

Spec == Init /\ [][Next]_vars

\* The handler against the sysfs callbacks that take more than one step, the
\* ones a handler step can find in progress.  The handler runs in interrupt
\* context: once entered it is scheduled until it returns, whatever the
\* callbacks do, hence the fairness of its steps and of nothing else.
NextFair ==
    \/ tomasgpio_irq_handler
    \/ lastTime_show_sec
    \/ lastTime_show_nsec
    \/ diffTime_show_sec
    \/ diffTime_show_nsec
    \/ \E text \in DebounceInputs : isDebounce_store_95(text)
    \/ isDebounce_store_96
    \/ isDebounce_store_97
    \/ isDebounce_store_98

SpecFair == Init /\ [][NextFair]_vars /\ WF_vars(irq_steps)

\* The running module with the raw transitions of the input line and the
\* debounce attribute.
NextEdge ==
    \/ \E g \in Gaps : edge_accept(g)
    \/ \E g \in Gaps : edge_discard(g)
    \/ irq_steps
    \/ isDebounce_show
    \/ \E text \in DebounceInputs : isDebounce_store_95(text)
    \/ isDebounce_store_96
    \/ isDebounce_store_97
    \/ isDebounce_store_98

SpecEdge == Init /\ [][NextEdge]_vars

(***************************************************************************)
(* lastTime_show on its own: the module starts with ts_last at any of the  *)
(* readings below (tomasMeter_init stores whatever the wall clock reads),  *)
(* no pulse arrives, and lastTime is read.                                 *)
(***************************************************************************)
SecInputs == {0, 59, 60, 3599, 3600, 86399, 86400, 90061, 1478314021, INT_MAX}

NsecInputs == {0, 5, 123456789, NSEC_PER_SEC - 1}

InitFmt ==
    /\ numWattHours = 0
    /\ ledOn = TRUE
    /\ isDebounce = TRUE
    /\ \E s \in SecInputs, n \in NsecInputs : ts_last = Timespec(s, n)
    /\ ts_current = Timespec(0, 0)
    /\ ts_diff = Timespec(0, 0)
    /\ gpioLED = TRUE
    /\ gpioDebounce = DEBOUNCE_TIME
    /\ hpc = "idle" /\ hreg = 0
    /\ op = "none" /\ apc = "idle" /\ buf = NoBuf /\ temp = 0 /\ aloaded = <<>>
    /\ ret = 0
    /\ nPulses = 0 /\ nCalls = 0
    /\ seqBase = 0 /\ seqN = 0 /\ seqTaint = FALSE
    /\ lastGens = {ts_last} /\ prevLast = ts_last
    /\ lpc = "running" /\ result = 0
    /\ tomas_kobj = "group"
    /\ requested = {"gpioLED", "gpioMeter"}
    /\ exported = {"gpioLED", "gpioMeter"}
    /\ irqRegistered = TRUE
    /\ startReading = ts_last
    /\ nDropped = 0
    /\ UserspaceIdle

NextFmt ==
    \/ lastTime_show_sec
    \/ lastTime_show_nsec

SpecFmt == InitFmt /\ [][NextFmt]_vars

(***************************************************************************)
(* The module's life: tomasMeter_init (lines 153-207), the handler once    *)
(* request_irq has registered it, and tomasMeter_exit (lines 213-223).     *)
(* Each kernel call that can fail has both outcomes; a call whose result   *)
(* the code drops continues either way.                                    *)
(***************************************************************************)
\* The statics as the module is loaded (lines 40-43), nothing acquired.
InitLife ==
    /\ numWattHours = 0
    /\ ledOn = FALSE
    /\ isDebounce = TRUE
    /\ ts_last = Timespec(0, 0)
    /\ ts_current = Timespec(0, 0)
    /\ ts_diff = Timespec(0, 0)
    /\ gpioLED = FALSE
    /\ gpioDebounce = 0
    /\ hpc = "idle" /\ hreg = 0
    /\ op = "none" /\ apc = "idle" /\ buf = NoBuf /\ temp = 0 /\ aloaded = <<>>
    /\ ret = 0
    /\ nPulses = 0 /\ nCalls = 0
    /\ seqBase = 0 /\ seqN = 0 /\ seqTaint = FALSE
    /\ lastGens = {Timespec(0, 0)} /\ prevLast = Timespec(0, 0)
    /\ lpc = "l161" /\ result = 0
    /\ tomas_kobj = "null"
    /\ requested = {}
    /\ exported = {}
    /\ irqRegistered = FALSE
    /\ startReading = Timespec(0, 0)
    /\ nDropped = 0
    /\ UserspaceIdle

\* what a step of tomasMeter_init or tomasMeter_exit leaves alone besides the
\* lifecycle state and the fields it names
running_state == <<handler, call, nPulses, nCalls, seq, nDropped>>

\* tomas_kobj = kobject_create_and_add(...); if(!tomas_kobj) return -ENOMEM;
init_161(ok) ==
    /\ lpc = "l161"
    /\ IF ok
       THEN tomas_kobj' = "kobject" /\ lpc' = "l168" /\ UNCHANGED result
       ELSE result' = -ENOMEM /\ lpc' = "failed" /\ UNCHANGED tomas_kobj
    /\ UNCHANGED <<globals, hw, running_state, lastGens, prevLast, requested,
                   exported, irqRegistered, startReading>>
    /\ UNCHANGED userspace

\* result = sysfs_create_group(...); if(result) { kobject_put(tomas_kobj); return result; }
init_168(ok) ==
    /\ lpc = "l168"
    /\ IF ok
       THEN tomas_kobj' = "group" /\ lpc' = "l174" /\ UNCHANGED result
       ELSE tomas_kobj' = "null" /\ result' = -ENOMEM /\ lpc' = "failed"
    /\ UNCHANGED <<globals, hw, running_state, lastGens, prevLast, requested,
                   exported, irqRegistered, startReading>>
    /\ UNCHANGED userspace

\* getnstimeofday(&ts_last);
init_174 ==
    /\ lpc = "l174"
    /\ ts_last' \in ClockValues
    /\ startReading' = ts_last'
    /\ lastGens' = {ts_last'}
    /\ prevLast' = ts_last'
    /\ lpc' = "l175"
    /\ UNCHANGED <<numWattHours, ledOn, isDebounce, ts_current, ts_diff, hw,
                   running_state, result, tomas_kobj, requested, exported,
                   irqRegistered>>
    /\ UNCHANGED userspace

\* mutant of init_175: the interval starts as the reading, not as zero
init_175_NoSub ==
    /\ lpc = "l175"
    /\ ts_diff' = ts_last
    /\ lpc' = "l178"
    /\ UNCHANGED <<numWattHours, ledOn, isDebounce, ts_last, ts_current, hw,
                   running_state, lastGens, prevLast, result, tomas_kobj,
                   requested, exported, irqRegistered, startReading>>
    /\ UNCHANGED userspace

\* ts_diff = timespec_sub(ts_last, ts_last);
init_175 ==
    /\ lpc = "l175"
    /\ ts_diff' = timespec_sub(ts_last, ts_last)
    /\ lpc' = "l178"
    /\ UNCHANGED <<numWattHours, ledOn, isDebounce, ts_last, ts_current, hw,
                   running_state, lastGens, prevLast, result, tomas_kobj,
                   requested, exported, irqRegistered, startReading>>
    /\ UNCHANGED userspace

\* ledOn = true;
init_178 ==
    /\ lpc = "l178"
    /\ ledOn' = TRUE
    /\ lpc' = "l179"
    /\ UNCHANGED <<numWattHours, isDebounce, ts_last, ts_current, ts_diff, hw,
                   running_state, lastGens, prevLast, result, tomas_kobj,
                   requested, exported, irqRegistered, startReading>>
    /\ UNCHANGED userspace

\* gpio_request(gpioLED, "sysfs");  the result is dropped
init_179(ok) ==
    /\ lpc = "l179"
    /\ requested' = IF ok THEN requested \cup {"gpioLED"} ELSE requested
    /\ lpc' = "l180"
    /\ UNCHANGED <<globals, hw, running_state, lastGens, prevLast, result,
                   tomas_kobj, exported, irqRegistered, startReading>>
    /\ UNCHANGED userspace

\* gpio_direction_output(gpioLED, ledOn);
init_180 ==
    /\ lpc = "l180"
    /\ gpioLED' = ledOn
    /\ lpc' = "l182"
    /\ UNCHANGED <<globals, gpioDebounce, running_state, lastGens, prevLast,
                   result, tomas_kobj, requested, exported, irqRegistered,
                   startReading>>
    /\ UNCHANGED userspace

\* gpio_export(gpioLED, false);  exports a line that is held
init_182 ==
    /\ lpc = "l182"
    /\ exported' = exported \cup (requested \cap {"gpioLED"})
    /\ lpc' = "l184"
    /\ UNCHANGED <<globals, hw, running_state, lastGens, prevLast, result,
                   tomas_kobj, requested, irqRegistered, startReading>>
    /\ UNCHANGED userspace

\* gpio_request(gpioMeter, "sysfs");  the result is dropped
init_184(ok) ==
    /\ lpc = "l184"
    /\ requested' = IF ok THEN requested \cup {"gpioMeter"} ELSE requested
    /\ lpc' = "l186"
    /\ UNCHANGED <<globals, hw, running_state, lastGens, prevLast, result,
                   tomas_kobj, exported, irqRegistered, startReading>>
    /\ UNCHANGED userspace

\* gpio_direction_input(gpioMeter); gpio_set_debounce(gpioMeter, DEBOUNCE_TIME);
init_186 ==
    /\ lpc = "l186"
    /\ gpioDebounce' = DEBOUNCE_TIME
    /\ lpc' = "l187"
    /\ UNCHANGED <<globals, gpioLED, running_state, lastGens, prevLast, result,
                   tomas_kobj, requested, exported, irqRegistered, startReading>>
    /\ UNCHANGED userspace

\* gpio_export(gpioMeter, false);
init_187 ==
    /\ lpc = "l187"
    /\ exported' = exported \cup (requested \cap {"gpioMeter"})
    /\ lpc' = "l201"
    /\ UNCHANGED <<globals, hw, running_state, lastGens, prevLast, result,
                   tomas_kobj, requested, irqRegistered, startReading>>
    /\ UNCHANGED userspace

\* result = request_irq(...); return result;  (lines 191-199 touch no state)
init_201(ok) ==
    /\ lpc = "l201"
    /\ IF ok
       THEN irqRegistered' = TRUE /\ result' = 0 /\ lpc' = "running"
       ELSE UNCHANGED irqRegistered /\ result' = -ENOMEM /\ lpc' = "failed"
    /\ UNCHANGED <<globals, hw, running_state, lastGens, prevLast, tomas_kobj,
                   requested, exported, startReading>>
    /\ UNCHANGED userspace

tomasMeter_init ==
    \/ \E ok \in BOOLEAN : init_161(ok)
    \/ \E ok \in BOOLEAN : init_168(ok)
    \/ init_174
    \/ init_175
    \/ init_178
    \/ \E ok \in BOOLEAN : init_179(ok)
    \/ init_180
    \/ init_182
    \/ \E ok \in BOOLEAN : init_184(ok)
    \/ init_186
    \/ init_187
    \/ \E ok \in BOOLEAN : init_201(ok)

\* what a step of tomasMeter_exit leaves alone besides the field it names
exit_frame == <<globals, running_state, lastGens, prevLast, result, startReading>>

\* the module is unloaded: printk(..., numWattHours);
exit_214 ==
    /\ lpc = "running"
    /\ lpc' = "l215"
    /\ UNCHANGED <<exit_frame, hw, tomas_kobj, requested, exported, irqRegistered>>
    /\ UNCHANGED userspace

\* kobject_put(tomas_kobj);
exit_215 ==
    /\ lpc = "l215"
    /\ tomas_kobj' = "null"
    /\ lpc' = "l216"
    /\ UNCHANGED <<exit_frame, hw, requested, exported, irqRegistered>>
    /\ UNCHANGED userspace

\* gpio_set_value(gpioLED, 0);
exit_216 ==
    /\ lpc = "l216"
    /\ gpioLED' = FALSE
    /\ lpc' = "l217"
    /\ UNCHANGED <<exit_frame, gpioDebounce, tomas_kobj, requested, exported,
                   irqRegistered>>
    /\ UNCHANGED userspace

\* gpio_unexport(gpioLED);
exit_217 ==
    /\ lpc = "l217"
    /\ exported' = exported \ {"gpioLED"}
    /\ lpc' = "l218"
    /\ UNCHANGED <<exit_frame, hw, tomas_kobj, requested, irqRegistered>>
    /\ UNCHANGED userspace

\* free_irq(irqNumber, NULL);  returns once no invocation is in progress
exit_218 ==
    /\ lpc = "l218"
    /\ hpc = "idle"
    /\ irqRegistered' = FALSE
    /\ lpc' = "l219"
    /\ UNCHANGED <<exit_frame, hw, tomas_kobj, requested, exported>>
    /\ UNCHANGED userspace

\* gpio_unexport(gpioMeter);
exit_219 ==
    /\ lpc = "l219"
    /\ exported' = exported \ {"gpioMeter"}
    /\ lpc' = "l220"
    /\ UNCHANGED <<exit_frame, hw, tomas_kobj, requested, irqRegistered>>
    /\ UNCHANGED userspace

\* gpio_free(gpioLED);
exit_220 ==
    /\ lpc = "l220"
    /\ requested' = requested \ {"gpioLED"}
    /\ lpc' = "l221"
    /\ UNCHANGED <<exit_frame, hw, tomas_kobj, exported, irqRegistered>>
    /\ UNCHANGED userspace

\* gpio_free(gpioMeter);
exit_221 ==
    /\ lpc = "l221"
    /\ requested' = requested \ {"gpioMeter"}
    /\ lpc' = "unloaded"
    /\ UNCHANGED <<exit_frame, hw, tomas_kobj, exported, irqRegistered>>
    /\ UNCHANGED userspace

tomasMeter_exit ==
    \/ exit_214
    \/ exit_215
    \/ exit_216
    \/ exit_217
    \/ exit_218
    \/ exit_219
    \/ exit_220
    \/ exit_221

NextLife ==
    \/ tomasMeter_init
    \/ tomasgpio_irq_handler
    \/ tomasMeter_exit

SpecLife == InitLife /\ [][NextLife]_vars

(***************************************************************************)
(* Properties.                                                             *)
(***************************************************************************)
\* b + n on a 32-bit int, for 0 <= n: past INT_MAX the sum continues from INT_MIN
Add32(b, n) == IF b > INT_MAX - n THEN INT_MIN + (n - 1 - (INT_MAX - b)) ELSE b + n

Even(n) == n % 2 = 0

C2_NoTornRead ==
    (op = "lastTime_show" /\ apc = "idle") =>
        \E g \in lastGens :
            /\ aloaded[1] = g.tv_sec /\ aloaded[2] = g.tv_sec /\ aloaded[3] = g.tv_sec
            /\ aloaded[4] = g.tv_nsec

\* C3: when a numWattHours_store of V fell inside a handler invocation, the
\* count the invocation leaves is V or V + 1 (one of the two serial orders).
C3_ResetAndIncrementSerialise ==
    [][(irq_242_store /\ seqTaint) =>
          numWattHours' \in {seqBase, Inc32(seqBase)}]_vars

\* C4: ts_diff is never negative, and once an invocation that read the clock
\* at or after the previous reading has returned, ts_diff is exactly the
\* difference of the two readings and ts_last the later one.
C4_IntervalExactAndNonNegative ==
    /\ ts_diff.tv_sec >= 0 /\ ts_diff.tv_nsec >= 0
    /\ (hpc = "idle" /\ nPulses > 0 /\ ~Before(ts_current, prevLast)) =>
           /\ ts_last = ts_current
           /\ ts_diff = timespec_sub(ts_current, prevLast)

\* C4, the part that holds whatever the clock does: the interval an invocation
\* leaves is the normalised difference of its reading and the previous one.
C4_IntervalIsDifference ==
    (hpc = "idle" /\ nPulses > 0) =>
        ts_last = ts_current /\ ts_diff = timespec_sub(ts_current, prevLast)

C6_ToggledOncePerPulse ==
    /\ ledOn = Even(IF hpc \in {"idle", "l236"} THEN nPulses ELSE nPulses + 1)
    /\ hpc # "l237" => gpioLED = ledOn

\* two invocations completed, with sysfs writes made meanwhile
C6_Witness ==
    /\ hpc = "idle" /\ nPulses = 2 /\ ledOn /\ gpioLED
    /\ nCalls = 2 /\ numWattHours # 2 /\ ~isDebounce

\* C7: right after a numWattHours_store of the decimal text of V,
\* numWattHours_show prints that text.
C7_WriteThenRead ==
    [][\A text \in CountInputs :
          (numWattHours_store(text) /\ ScanInt(text).ok) =>
              numWattHours_showText(numWattHours') = text \o <<"\n">>]_vars

\* C8: numWattHours_store changes numWattHours only: ts_last, ts_diff, ledOn,
\* isDebounce, the level on gpioLED and the debounce window are left as they were.
C8_StoreTouchesCountOnly ==
    [][(\E text \in CountInputs : numWattHours_store(text)) =>
          UNCHANGED <<ts_last, ts_diff, ledOn, isDebounce, gpioLED, gpioDebounce>>]_vars

\* a reset to 0 after one pulse: the interval of that pulse is still there
C8_Witness ==
    /\ op = "numWattHours_store" /\ apc = "idle" /\ buf = <<"0">>
    /\ hpc = "idle" /\ nPulses = 1 /\ numWattHours = 0
    /\ ts_diff = timespec_sub(Tick(2), Tick(1)) /\ ts_last = Tick(2) /\ ~ledOn

\* C9: an isDebounce_store of a text that holds no number leaves isDebounce
\* as it was and returns an error (a negative value).
C9_MalformedDebounceRejected ==
    [][(op = "isDebounce_store" /\ apc # "idle" /\ ~ScanInt(buf).ok) =>
          /\ isDebounce' = isDebounce
          /\ apc' = "idle" => ret' < 0]_vars

\* C10: a numWattHours_store of a text that holds no number leaves every
\* module global as it was and returns an error (a negative value).
C10_MalformedCountRejected ==
    [][\A text \in CountInputs :
          (numWattHours_store(text) /\ ~ScanInt(text).ok) =>
              (UNCHANGED globals /\ ret' < 0)]_vars

(***************************************************************************)
(* The file-transfer server (src/userspace/CS-update/server/main.c), from  *)
(* its accept loop on (lines 247-306).  A file is what the server can see  *)
(* of it: the size fseek/ftell report and the bytes reading yields; the    *)
(* two differ for a sysfs attribute and for a file that changes after it   *)
(* was sized.                                                              *)
(***************************************************************************)
File(size, data) == [size |-> size, data |-> data]

FileLens == {0, 1, CHUNK_SIZE, CHUNK_SIZE + 1, 2 * CHUNK_SIZE + CHUNK_SIZE \div 2}

Files == {File(n, n) : n \in FileLens}
            \cup {File(2 * CHUNK_SIZE, 2), File(1, CHUNK_SIZE + 1)}

Min(a, b) == IF a < b THEN a ELSE b

\* the module's state, which the userspace programs do not touch
module == <<globals, hw, handler, call, hist, life, nDropped>>

\* The server listening (line 244), started with or without -b.
InitServer ==
    /\ ModuleLoaded
    /\ spc = "l250" /\ countBytes \in BOOLEAN /\ fp = NoFile /\ fpos = 0
    /\ fileSize = 0 /\ numWritten = 0 /\ numToWrite = 0
    /\ hdrBytes = 0 /\ sentBytes = 0 /\ sockFailed = FALSE /\ nConns = 0
    /\ sockOpen = 0 /\ fileOpen = 0 /\ bodyFailed = FALSE
    /\ ClientIdle /\ PowerIdle /\ PortsIdle

\* newsockfd = accept(...); if (newsockfd < 0) error("ERROR on accept");
srv_250(ok) ==
    /\ spc = "l250"
    /\ nConns < MaxConns
    /\ IF ok
       THEN /\ nConns' = nConns + 1
            /\ hdrBytes' = 0 /\ sentBytes' = 0 /\ sockFailed' = FALSE
            /\ spc' = "l255"
       ELSE /\ spc' = "exited"
            /\ UNCHANGED <<nConns, hdrBytes, sentBytes, sockFailed>>
    /\ UNCHANGED <<countBytes, fp, fpos, fileSize, numWritten, numToWrite>>
    /\ UNCHANGED module
    /\ IF ok
       THEN sockOpen' = sockOpen + 1 /\ bodyFailed' = FALSE /\ UNCHANGED fileOpen
       ELSE UNCHANGED srvHist
    /\ UNCHANGED <<client, powerc, ports>>

\* fp = fopen(fileName, "r");
srv_255(f) ==
    /\ spc = "l255"
    /\ fp' = f
    /\ fpos' = 0
    /\ spc' = "l256"
    /\ UNCHANGED <<countBytes, fileSize, numWritten, numToWrite, hdrBytes,
                   sentBytes, sockFailed, nConns>>
    /\ UNCHANGED module
    /\ fileOpen' = IF f # NoFile THEN fileOpen + 1 ELSE fileOpen
    /\ UNCHANGED <<sockOpen, bodyFailed>>
    /\ UNCHANGED <<client, powerc, ports>>

\* lines 256-275: the size, counted with fgetc under -b, else by fseek/ftell;
\* 0 when the file could not be opened
srv_256 ==
    /\ spc = "l256"
    /\ fileSize' = IF fp = NoFile THEN 0
                   ELSE IF countBytes THEN fp.data ELSE fp.size
    /\ fpos' = 0
    /\ spc' = "l279"
    /\ UNCHANGED <<countBytes, fp, numWritten, numToWrite, hdrBytes, sentBytes,
                   sockFailed, nConns>>
    /\ UNCHANGED module
    /\ UNCHANGED srvHist
    /\ UNCHANGED <<client, powerc, ports>>

\* n = write(newsockfd, &txFileSize, sizeof(fileSize));
\* if (n != sizeof(fileSize)) error(...);  numWritten = 0;
srv_279(ok) ==
    /\ spc = "l279"
    /\ IF ok
       THEN hdrBytes' = SIZE_FIELD /\ spc' = "l286" /\ UNCHANGED sockFailed
       ELSE sockFailed' = TRUE /\ spc' = "exited" /\ UNCHANGED hdrBytes
    /\ numWritten' = 0
    /\ UNCHANGED <<countBytes, fp, fpos, fileSize, numToWrite, sentBytes, nConns>>
    /\ UNCHANGED module
    /\ UNCHANGED srvHist
    /\ UNCHANGED <<client, powerc, ports>>

\* if (fp != NULL) while (numWritten < fileSize) { numToWrite = ...;
srv_286 ==
    /\ spc = "l286"
    /\ IF fp # NoFile /\ numWritten < fileSize
       THEN /\ numToWrite' = Min(fileSize - numWritten, CHUNK_SIZE)
            /\ spc' = "l289"
       ELSE /\ spc' = "l304"
            /\ UNCHANGED numToWrite
    /\ UNCHANGED <<countBytes, fp, fpos, fileSize, numWritten, hdrBytes,
                   sentBytes, sockFailed, nConns>>
    /\ UNCHANGED module
    /\ UNCHANGED srvHist
    /\ UNCHANGED <<client, powerc, ports>>

\* mutant of srv_289: a short read of the file ends the server
srv_289_Exits ==
    /\ spc = "l289"
    /\ LET n == Min(numToWrite, fp.data - fpos)
       IN  /\ fpos' = fpos + n
           /\ spc' = IF n # numToWrite THEN "exited" ELSE "l295"
    /\ UNCHANGED <<countBytes, fp, fileSize, numWritten, numToWrite, hdrBytes,
                   sentBytes, sockFailed, nConns>>
    /\ UNCHANGED module
    /\ bodyFailed' = (bodyFailed \/ Min(numToWrite, fp.data - fpos) # numToWrite)
    /\ UNCHANGED <<sockOpen, fileOpen>>
    /\ UNCHANGED <<client, powerc, ports>>

\* n = fread(buffer, 1, numToWrite, fp); if (n != numToWrite) break;
srv_289 ==
    /\ spc = "l289"
    /\ LET n == Min(numToWrite, fp.data - fpos)
       IN  /\ fpos' = fpos + n
           /\ spc' = IF n # numToWrite THEN "l304" ELSE "l295"
    /\ UNCHANGED <<countBytes, fp, fileSize, numWritten, numToWrite, hdrBytes,
                   sentBytes, sockFailed, nConns>>
    /\ UNCHANGED module
    /\ bodyFailed' = (bodyFailed \/ Min(numToWrite, fp.data - fpos) # numToWrite)
    /\ UNCHANGED <<sockOpen, fileOpen>>
    /\ UNCHANGED <<client, powerc, ports>>

\* n = write(newsockfd, buffer, numToWrite); if (n != numToWrite) break;
\* numWritten += numToWrite;   (a write that fails has moved part or nothing)
srv_295(ok) ==
    /\ spc = "l295"
    /\ IF ok
       THEN /\ sentBytes' = sentBytes + numToWrite
            /\ numWritten' = numWritten + numToWrite
            /\ spc' = "l286"
            /\ UNCHANGED sockFailed
       ELSE /\ sentBytes' = sentBytes + numToWrite \div 2
            /\ sockFailed' = TRUE
            /\ spc' = "l304"
            /\ UNCHANGED numWritten
    /\ UNCHANGED <<countBytes, fp, fpos, fileSize, numToWrite, hdrBytes, nConns>>
    /\ UNCHANGED module
    /\ bodyFailed' = (bodyFailed \/ ~ok)
    /\ UNCHANGED <<sockOpen, fileOpen>>
    /\ UNCHANGED <<client, powerc, ports>>

\* close(newsockfd);
srv_304 ==
    /\ spc = "l304"
    /\ spc' = "l305"
    /\ UNCHANGED <<countBytes, fp, fpos, fileSize, numWritten, numToWrite,
                   hdrBytes, sentBytes, sockFailed, nConns>>
    /\ UNCHANGED module
    /\ sockOpen' = sockOpen - 1
    /\ UNCHANGED <<fileOpen, bodyFailed>>
    /\ UNCHANGED <<client, powerc, ports>>

\* if (fp != NULL) fclose(fp);  and round the loop
srv_305 ==
    /\ spc = "l305"
    /\ fp' = NoFile
    /\ fpos' = 0
    /\ spc' = "l250"
    /\ UNCHANGED <<countBytes, fileSize, numWritten, numToWrite, hdrBytes,
                   sentBytes, sockFailed, nConns>>
    /\ UNCHANGED module
    /\ fileOpen' = IF fp # NoFile THEN fileOpen - 1 ELSE fileOpen
    /\ UNCHANGED <<sockOpen, bodyFailed>>
    /\ UNCHANGED <<client, powerc, ports>>

NextServer ==
    \/ \E ok \in BOOLEAN : srv_250(ok)
    \/ \E f \in Files \cup {NoFile} : srv_255(f)
    \/ srv_256
    \/ \E ok \in BOOLEAN : srv_279(ok)
    \/ srv_286
    \/ srv_289
    \/ \E ok \in BOOLEAN : srv_295(ok)
    \/ srv_304
    \/ srv_305

SpecServer == InitServer /\ [][NextServer]_vars

\* the steps of the serve loop after accept has returned
srv_steps ==
    \/ \E f \in Files \cup {NoFile} : srv_255(f)
    \/ srv_256
    \/ \E ok \in BOOLEAN : srv_279(ok)
    \/ srv_286
    \/ srv_289
    \/ \E ok \in BOOLEAN : srv_295(ok)
    \/ srv_304
    \/ srv_305

\* The server is a process of its own: once accept has returned it goes on
\* (fopen, fread, write and close return).
SpecServerFair == SpecServer /\ WF_vars(srv_steps)

(***************************************************************************)
(* The file-transfer client (src/userspace/CS-update/client/main.c), from  *)
(* the established connection on (lines 321-343), with readXBytes (lines   *)
(* 168-191).  The stream is numbered from 0: the bytes of the size field,  *)
(* then the content.  A run of bytes is kept as where it starts in the     *)
(* stream and how long it is; the chunk buffer is the set of runs it holds *)
(* with the offset of each.                                                *)
(***************************************************************************)
\* htonl on the peer's side: the four bytes of a size, most significant first
HeaderBytes(len) ==
    LET w == ToLimbs(len)
    IN  <<w[1] \div 256, w[1] % 256, w[2] \div 256, w[2] % 256>>

\* ntohl of the four bytes read into length
ntohl(b) == FromLimbs(<<b[1] * 256 + b[2], b[3] * 256 + b[4]>>)

Lengths == {-1, 0, 1, CHUNK_SIZE, CHUNK_SIZE + 1, 2 * CHUNK_SIZE + CHUNK_SIZE \div 2}

\* peers that send what they announce, peers that close half way, one that
\* closes inside the size field and one that sends more than it announced
Peers ==
    {Peer(n, SIZE_FIELD, IF n < 0 THEN 0 ELSE n) : n \in Lengths}
        \cup {Peer(n, SIZE_FIELD, n \div 2) : n \in Lengths \ {-1, 0}}
        \cup {Peer(1, SIZE_FIELD \div 2, 0), Peer(1, SIZE_FIELD, CHUNK_SIZE)}

\* the bytes the peer's stream still holds
Remaining == peer.hdr + peer.data - rpos

Seg(off, from, len) == [off |-> off, from |-> from, len |-> len]

Run(from, len) == [from |-> from, len |-> len]

\* the offsets of a set, in increasing order
SortedSeq(S) ==
    [i \in 1..Cardinality(S) |->
        CHOOSE x \in S : Cardinality({y \in S : y < x}) = i - 1]

\* the ends of the runs of a buffer
Ends(B) == {g.off : g \in B} \cup {g.off + g.len : g \in B}

Holds(g, o) == g.off <= o /\ o < g.off + g.len

\* read(fd, buf + off, ...) storing a run: the buffer with the bytes of g
\* over whatever it held at those offsets
Place(B, g) ==
    LET pts == Ends(B \cup {g})
        nxt(a) == CHOOSE b \in pts : b > a /\ \A c \in pts : c > a => b <= c
        src(a) == IF Holds(g, a) THEN g.from + (a - g.off)
                  ELSE LET h == CHOOSE h \in B : Holds(h, a) IN h.from + (a - h.off)
    IN  {Seg(a, src(a), nxt(a) - a) :
            a \in {a \in pts : Holds(g, a) \/ \E h \in B : Holds(h, a)}}

\* runs appended to the output file; a run that continues the one before it
\* in the stream is one run with it
AppendRuns(o, rs) ==
    LET s == o \o rs
        first == {i \in 1..Len(s) :
                    \/ i = 1
                    \/ s[i - 1].from < 0
                    \/ s[i].from < 0
                    \/ s[i - 1].from + s[i - 1].len # s[i].from}
        st == SortedSeq(first)
        last(k) == IF k = Len(st) THEN Len(s) ELSE st[k + 1] - 1
    IN  [k \in 1..Len(st) |->
            Run(s[st[k]].from, s[last(k)].from + s[last(k)].len - s[st[k]].from)]

\* fwrite(buffer, 1, n, fp): the first n bytes of the buffer, as runs in the
\* order of their offsets (from = -1: bytes the buffer never received)
BufferRuns(B, n) ==
    LET pts == (Ends(B) \cup {0, n}) \cap (0..n)
        ord == SortedSeq(pts)
        src(a) == IF \E h \in B : Holds(h, a)
                  THEN LET h == CHOOSE h \in B : Holds(h, a) IN h.from + (a - h.off)
                  ELSE -1
    IN  [i \in 1..(Len(ord) - 1) |-> Run(src(ord[i]), ord[i + 1] - ord[i])]

\* The client connected (line 313) to one of the peers.
InitClient ==
    /\ ModuleLoaded
    /\ ServerIdle /\ PowerIdle /\ PortsIdle
    /\ cpc = "l321" /\ length = 0 /\ numRead = 0 /\ numToRead = 0 /\ retval = 0
    /\ lenbuf = <<0, 0, 0, 0>> /\ buffer = {} /\ xn = 0 /\ xwant = 0
    /\ out = <<>> /\ peer \in Peers /\ rpos = 0 /\ nShort = 0
    /\ sawEnd = FALSE

\* retval = readXBytes(sockfd, (uint8_t *)&length, sizeof(length));  the call
cli_321 ==
    /\ cpc = "l321"
    /\ xn' = 0
    /\ xwant' = SIZE_FIELD
    /\ cpc' = "rx_length"
    /\ UNCHANGED <<length, numRead, numToRead, retval, lenbuf, buffer, out, peer,
                   rpos, nShort, sawEnd>>
    /\ UNCHANGED <<module, server, srvHist, powerc, ports>>

\* what read(fd, buf + numRead, numToRead - numRead) can return: all that is
\* asked for and there, a single byte, 0 at the end of the stream, -1
ReadResults ==
    IF Remaining > 0
    THEN {Min(xwant - xn, Remaining), -1}
            \cup (IF nShort < MaxShort /\ xwant - xn > 1 THEN {1} ELSE {})
    ELSE {0, -1}

\* where readXBytes returns to
Caller == IF cpc = "rx_length" THEN "l323" ELSE "l335"

\* readXBytes, lines 173-189: one round of the loop.  A read that returns
\* r > 0 has stored the next r bytes of the stream at buf + numRead; any other
\* result ends the call with -2 (the branch of line 180 is never taken).
rx_read(r) ==
    /\ cpc \in {"rx_length", "rx_chunk"}
    /\ xn < xwant
    /\ IF r > 0
       THEN /\ IF cpc = "rx_length"
               THEN /\ lenbuf' = [i \in 1..SIZE_FIELD |->
                                    IF xn < i /\ i <= xn + r
                                    THEN HeaderBytes(peer.len)[rpos + (i - xn)]
                                    ELSE lenbuf[i]]
                    /\ UNCHANGED buffer
               ELSE /\ buffer' = Place(buffer, Seg(xn, rpos, r))
                    /\ UNCHANGED lenbuf
            /\ xn' = xn + r
            /\ rpos' = rpos + r
            /\ nShort' = IF r < Min(xwant - xn, Remaining) THEN nShort + 1 ELSE nShort
            /\ UNCHANGED <<cpc, retval, sawEnd>>
       ELSE /\ retval' = -2
            /\ sawEnd' = TRUE
            /\ cpc' = Caller
            /\ UNCHANGED <<lenbuf, buffer, xn, rpos, nShort>>
    /\ UNCHANGED <<length, numRead, numToRead, xwant, out, peer>>
    /\ UNCHANGED <<module, server, srvHist, powerc, ports>>

\* readXBytes, lines 173 and 190: the loop is over, return numRead;
rx_return ==
    /\ cpc \in {"rx_length", "rx_chunk"}
    /\ xn >= xwant
    /\ retval' = xn
    /\ cpc' = Caller
    /\ UNCHANGED <<length, numRead, numToRead, lenbuf, buffer, xn, xwant, out,
                   peer, rpos, nShort, sawEnd>>
    /\ UNCHANGED <<module, server, srvHist, powerc, ports>>

\* if (retval != sizeof(length)) error("Failed FileSize");
\* length = ntohl(length);  numRead = 0;
cli_323 ==
    /\ cpc = "l323"
    /\ IF retval # SIZE_FIELD
       THEN cpc' = "exit1" /\ UNCHANGED <<length, numRead>>
       ELSE length' = ntohl(lenbuf) /\ numRead' = 0 /\ cpc' = "l331"
    /\ UNCHANGED <<numToRead, retval, lenbuf, buffer, xn, xwant, out, peer, rpos,
                   nShort, sawEnd>>
    /\ UNCHANGED <<module, server, srvHist, powerc, ports>>

\* while (numRead < length) { numToRead = ...; retval = readXBytes(sockfd,
\* buffer, numToRead);   the test, and the call
cli_331 ==
    /\ cpc = "l331"
    /\ IF numRead < length
       THEN /\ numToRead' = Min(CHUNK_SIZE, length - numRead)
            /\ xn' = 0
            /\ xwant' = numToRead'
            /\ cpc' = "rx_chunk"
       ELSE /\ cpc' = "l340"
            /\ UNCHANGED <<numToRead, xn, xwant>>
    /\ UNCHANGED <<length, numRead, retval, lenbuf, buffer, out, peer, rpos,
                   nShort, sawEnd>>
    /\ UNCHANGED <<module, server, srvHist, powerc, ports>>

\* mutant of cli_335: a chunk that readXBytes did not fill is written all the same
cli_335_Unchecked ==
    /\ cpc = "l335"
    /\ out' = AppendRuns(out, BufferRuns(buffer, numToRead))
    /\ numRead' = numRead + numToRead
    /\ cpc' = "l331"
    /\ UNCHANGED <<length, numToRead, retval, lenbuf, buffer, xn, xwant, peer,
                   rpos, nShort, sawEnd>>
    /\ UNCHANGED <<module, server, srvHist, powerc, ports>>

\* if (retval != numToRead) error("Failed read");
\* fwrite(buffer, 1, numToRead, fp);  numRead += numToRead;
cli_335 ==
    /\ cpc = "l335"
    /\ IF retval # numToRead
       THEN cpc' = "exit1" /\ UNCHANGED <<out, numRead>>
       ELSE /\ out' = AppendRuns(out, BufferRuns(buffer, numToRead))
            /\ numRead' = numRead + numToRead
            /\ cpc' = "l331"
    /\ UNCHANGED <<length, numToRead, retval, lenbuf, buffer, xn, xwant, peer,
                   rpos, nShort, sawEnd>>
    /\ UNCHANGED <<module, server, srvHist, powerc, ports>>

\* fclose(fp); close(sockfd); return 0;
cli_340 ==
    /\ cpc = "l340"
    /\ cpc' = "exit0"
    /\ UNCHANGED <<length, numRead, numToRead, retval, lenbuf, buffer, xn, xwant,
                   out, peer, rpos, nShort, sawEnd>>
    /\ UNCHANGED <<module, server, srvHist, powerc, ports>>

NextClient ==
    \/ cli_321
    \/ \E r \in ReadResults : rx_read(r)
    \/ rx_return
    \/ cli_323
    \/ cli_331
    \/ cli_335
    \/ cli_340

\* The client is a process of its own and read returns (with bytes, at the end
\* of the stream or with an error): it always takes its next step.
SpecClient == InitClient /\ [][NextClient]_vars /\ WF_vars(NextClient)

\* C11: while debounce is enabled no raw transition within the 200 window of the
\* previous accepted one reaches the handler (of two transitions 50 apart one
\* invocation follows), and while it is disabled none is discarded (two follow).
C11_DebounceWindow ==
    [][\A g \in Gaps :
          /\ (isDebounce /\ g < DEBOUNCE_TIME) => ~edge_accept(g)
          /\ ~isDebounce => ~edge_discard(g)]_vars

\* C11, the half that holds: a disabled debounce discards nothing.
C11_DisabledDeliversAll == [][\A g \in Gaps : ~isDebounce => ~edge_discard(g)]_vars

\* C12: startup is all-or-nothing: when tomasMeter_init has failed it has
\* returned an error and holds nothing (no sysfs entry, no line held or
\* exported, no handler), and the module runs only with all of them acquired.
C12_StartupAllOrNothing ==
    /\ lpc = "failed" =>
          /\ result < 0
          /\ tomas_kobj = "null"
          /\ requested = {} /\ exported = {}
          /\ ~irqRegistered
    /\ lpc = "running" =>
          /\ result = 0
          /\ tomas_kobj = "group"
          /\ requested = {"gpioLED", "gpioMeter"}
          /\ irqRegistered

\* C13: when tomasMeter_exit has completed the handler is unregistered, both
\* lines are released and the output line is off.
C13_TeardownLeavesOutputOff ==
    lpc = "unloaded" => ~irqRegistered /\ requested = {} /\ gpioLED = FALSE

\* C13, the part that holds: the handler is unregistered and the lines released.
C13_TeardownReleases == lpc = "unloaded" => ~irqRegistered /\ requested = {}

C14_CountIsUnsigned ==
    [][/\ numWattHours' >= 0
       /\ (irq_242_store /\ ~seqTaint) =>
              (numWattHours' > numWattHours \/ numWattHours' = 0)]_vars

\* the handler's positions in the order it passes them
HandlerOrder ==
    <<"idle", "l236", "l237", "l238", "l239_sec", "l239_nsec", "l240_sec",
      "l240_nsec", "l242_load", "l242_store">>

HandlerRank(pc) == CHOOSE i \in 1..Len(HandlerOrder) : HandlerOrder[i] = pc

\* C16: an invocation never waits on a sysfs call: whatever call is in progress
\* its next step is enabled, every step moves it one position on, and so it
\* completes and every accepted pulse has its toggle, timestamp and increment
\* applied.
C16_HandlerCompletes ==
    /\ [](hpc # "idle" => ENABLED irq_steps)
    /\ [][hpc' # hpc => HandlerRank(hpc') = (HandlerRank(hpc) % Len(HandlerOrder)) + 1]_vars
    /\ \A k \in 0..MaxPulses : (hpc # "idle" /\ nPulses = k) ~> (hpc = "idle" /\ nPulses = k + 1)

C16_Witness ==
    /\ hpc = "idle" /\ nPulses = 1 /\ numWattHours = 1 /\ ~ledOn /\ ts_last = Tick(2)
    /\ op = "isDebounce_store" /\ apc = "l97"

\* C17: the show callbacks (readPulseCount, readOutputMirror,
\* readLastTimestamp, readLastInterval, readDebounceEnabled) change no module
\* global, neither the level of the output line nor the debounce window.
C17_ReadsChangeNothing ==
    [][(\/ numWattHours_show
        \/ ledOn_show
        \/ lastTime_show_sec \/ lastTime_show_nsec
        \/ diffTime_show_sec \/ diffTime_show_nsec
        \/ isDebounce_show) => UNCHANGED <<globals, hw>>]_vars

C17_Witness ==
    /\ op = "numWattHours_show" /\ apc = "idle" /\ buf = <<"1", "\n">>
    /\ numWattHours = 1 /\ nPulses = 1 /\ ~ledOn /\ ts_last = Tick(2)

\* the number a run of decimal digits of a buffer denotes
RECURSIVE DecValue(_)
DecValue(s) ==
    IF s = <<>> THEN 0 ELSE 10 * DecValue(SubSeq(s, 1, Len(s) - 1)) + DigitVal(s[Len(s)])

AllDigits(s) == \A i \in 1..Len(s) : IsDigit(s[i])

\* C18: lastTime_show prints ts_last = (sec, nsec) as HH:MM:SS:NNNNNNNNN with
\* HH = (sec / 3600) mod 24, MM = (sec / 60) mod 60, SS = sec mod 60, each of
\* two digits and in range, NNNNNNNNN = nsec in nine digits, and
\* HH*3600 + MM*60 + SS = sec mod 86400.
C18_LastTimeFormat ==
    (op = "lastTime_show" /\ apc = "idle") =>
        LET HH == SubSeq(buf, 1, 2)
            MM == SubSeq(buf, 4, 5)
            SS == SubSeq(buf, 7, 8)
            NN == SubSeq(buf, 10, 18)
            sec == ts_last.tv_sec
        IN  /\ Len(buf) = 20 /\ ret = 20
            /\ buf[3] = ":" /\ buf[6] = ":" /\ buf[9] = ":"
            /\ SubSeq(buf, 19, 20) = <<" ", "\n">>
            /\ AllDigits(HH) /\ AllDigits(MM) /\ AllDigits(SS) /\ AllDigits(NN)
            /\ DecValue(HH) = (sec \div 3600) % 24 /\ DecValue(HH) \in 0..23
            /\ DecValue(MM) = (sec \div 60) % 60 /\ DecValue(MM) \in 0..59
            /\ DecValue(SS) = sec % 60 /\ DecValue(SS) \in 0..59
            /\ DecValue(NN) = ts_last.tv_nsec
            /\ DecValue(HH) * 3600 + DecValue(MM) * 60 + DecValue(SS) = sec % 86400

C18_Witness ==
    /\ op = "lastTime_show" /\ apc = "idle"
    /\ ts_last = Timespec(90061, 5)
    /\ buf = <<"0", "1", ":", "0", "1", ":", "0", "1", ":",
               "0", "0", "0", "0", "0", "0", "0", "0", "5", " ", "\n">>

\* C19: when the server closes an accepted connection on which no write
\* failed, it has written the 4-byte size and exactly fileSize bytes of
\* content (size 0 and no content when the file could not be opened).
C19_SizeThenExactlySizeBytes ==
    (spc = "l305" /\ ~sockFailed) =>
        /\ hdrBytes = SIZE_FIELD
        /\ sentBytes = fileSize
        /\ fp = NoFile => fileSize = 0

\* C19, where it holds: under -b, or when the file reads as long as sized.
C19_ExactWhenSizeIsReadable ==
    (spc = "l305" /\ ~sockFailed /\ fp # NoFile /\ (countBytes \/ fp.data >= fp.size)) =>
        hdrBytes = SIZE_FIELD /\ sentBytes = fileSize

\* the content the peer announced, as a run of its stream (a size read as
\* negative announces none)
Announced == IF length > 0 THEN <<Run(SIZE_FIELD, length)>> ELSE <<>>

SCALE == 3600

\* the quotients at and below which SCALE / diffTime is 0
TooLong == SCALE * 10 + 1

\* fscanf(fd, "%f", &diffTime) of the text diffTime_show printed, in tenths of
\* a second (the readings of the modelled clock are whole tenths); any value
\* above SCALE seconds is kept as TooLong
ScanF(text) ==
    LET secs == SubSeq(text, 1, Len(text) - 11)
        tenth == SubSeq(text, Len(text) - 9, Len(text) - 9)
    IN  IF Len(secs) > 4 \/ DecValue(secs) > SCALE THEN TooLong
        ELSE DecValue(secs) * 10 + DecValue(tenth)

\* power.c has been started with the module loaded.
InitPower ==
    /\ ModuleLoaded
    /\ ServerIdle /\ ClientIdle /\ PortsIdle
    /\ wpc = "l13" /\ diffTime = 0 /\ power = 0

\* fd = fopen(fileName, "r");
pw_13 ==
    /\ wpc = "l13"
    /\ wpc' = "l14"
    /\ UNCHANGED <<diffTime, power>>
    /\ UNCHANGED <<module, server, client, srvHist, ports>>

\* fscanf(fd, "%f", &diffTime);  the read of the attribute has run
\* diffTime_show, whose text is parsed
pw_14 ==
    /\ wpc = "l14"
    /\ op = "diffTime_show" /\ apc = "idle"
    /\ diffTime' = ScanF(buf)
    /\ wpc' = "l16"
    /\ UNCHANGED power
    /\ UNCHANGED <<module, server, client, srvHist, ports>>

\* power = (SCALE/diffTime); printf; fclose.  The quotient of a division by
\* 0.0 is infinite and its conversion to int is undefined: the builds in use
\* give INT_MAX or INT_MIN.
pw_16 ==
    /\ wpc = "l16"
    /\ power' \in (IF diffTime = 0 THEN {INT_MAX, INT_MIN}
                   ELSE {(SCALE * 10) \div diffTime})
    /\ wpc' = "done"
    /\ UNCHANGED diffTime
    /\ UNCHANGED <<module, server, client, srvHist, ports>>

NextPower ==
    \/ tomasgpio_irq_handler
    \/ diffTime_show_sec
    \/ diffTime_show_nsec
    \/ pw_13
    \/ pw_14
    \/ pw_16

SpecPower == InitPower /\ [][NextPower]_vars

\* C25: the interval diffTime_show hands out is never 0, and so the divisor
\* of power.c's SCALE / diffTime is never 0: not after startup before any
\* pulse, not after two pulses with the same reading of the clock.
C25_IntervalReadIsNonZero ==
    /\ (op = "diffTime_show" /\ apc = "idle") => aloaded # <<0, 0>>
    /\ wpc = "l16" => diffTime # 0

(***************************************************************************)
(* The -p option of the file-transfer server and client: parsePort and     *)
(* what main does with its result.                                         *)
(***************************************************************************)
\* the range of uint16_t
PORTS == LIMB

\* the conversion of an int to int16_t (the value modulo 2^16, as gcc does)
Int16(x) == LET m == x % PORTS IN IF m >= PORTS \div 2 THEN m - PORTS ELSE m

\* atoi: white space, an optional sign, digits; 0 when there are no digits
atoi(text) == IF ScanInt(text).ok THEN ScanInt(text).val ELSE 0

\* int16_t parsePort(const char *providedPort)
parsePort(providedPort) ==
    IF providedPort.null THEN -1
    ELSE LET port == Int16(atoi(providedPort.text))
         IN  IF port = 0 THEN -1 ELSE port

\* the arguments given to -p
PortTexts ==
    { <<"0">>, <<"1">>, <<"8", "0">>, <<"8", "0", "8", "0">>,
      <<"3", "2", "7", "6", "7">>, <<"3", "2", "7", "6", "8">>,
      <<"6", "5", "5", "3", "5">>, <<"6", "5", "5", "3", "6">>,
      <<"6", "5", "5", "3", "7">>, <<"-", "5">>, <<"a", "b", "c">>, <<>> }

PortArgs == {Arg(t) : t \in PortTexts} \cup {NullArg}

\* port = parsePort(optarg); if (port == -1) error("Port not valid");
\* ... serv_addr.sin_port = htons(port);
UsePort(port) == IF port = -1 THEN PortExit ELSE PortSet(port % PORTS)

\* Neither program has looked at its options yet.
InitPorts ==
    /\ ModuleLoaded
    /\ ServerIdle /\ ClientIdle /\ PowerIdle /\ PortsIdle

\* the server's main, lines 175-182 and 240
srv_177(optarg) ==
    /\ srvBound = PortUnset
    /\ srvPortArg' = optarg
    /\ srvPort' = parsePort(optarg)
    /\ srvBound' = UsePort(srvPort')
    /\ UNCHANGED <<cliPortArg, cliPort, cliBound>>
    /\ UNCHANGED <<module, server, client, srvHist, powerc>>

\* the client's main, lines 243-248 and 305
cli_245(optarg) ==
    /\ cliBound = PortUnset
    /\ cliPortArg' = optarg
    /\ cliPort' = parsePort(optarg)
    /\ cliBound' = UsePort(cliPort')
    /\ UNCHANGED <<srvPortArg, srvPort, srvBound>>
    /\ UNCHANGED <<module, server, client, srvHist, powerc>>

NextPorts ==
    \/ \E optarg \in PortArgs : srv_177(optarg)
    \/ \E optarg \in PortArgs : cli_245(optarg)

SpecPorts == InitPorts /\ [][NextPorts]_vars

\* the decimal text of a TCP port, 1..65535
UsablePort(a) ==
    /\ ~a.null
    /\ a.text # <<>>
    /\ Len(a.text) <= 5
    /\ AllDigits(a.text)
    /\ DecValue(a.text) \in 1..(PORTS - 1)

\* parsePort's contract for one argument and its result
PortContract(a, port) ==
    /\ (port = -1) <=> ~UsablePort(a)
    /\ UsablePort(a) => port % PORTS = DecValue(a.text)

\* C27: parsePort returns -1 exactly when the argument is NULL or is not the
\* decimal text of a port in 1..65535, and otherwise a value whose 16 bits are
\* the port given; in the server and in the client.
C27_ParsePortContract ==
    /\ srvBound # PortUnset => PortContract(srvPortArg, srvPort)
    /\ cliBound # PortUnset => PortContract(cliPortArg, cliPort)

\* what holds of parsePort: every port in 1..65534 is returned with its 16
\* bits, and no text without leading digits is accepted
C27_ExactBelow65535 ==
    \A side \in {<<srvBound, srvPortArg, srvPort>>, <<cliBound, cliPortArg, cliPort>>} :
        side[1] # PortUnset =>
            /\ (UsablePort(side[2]) /\ DecValue(side[2].text) # PORTS - 1) =>
                    (side[3] # -1 /\ side[3] % PORTS = DecValue(side[2].text)
                        /\ side[1] = PortSet(DecValue(side[2].text)))
            /\ (side[2].null \/ ~ScanInt(side[2].text).ok) => side[3] = -1

\* the debounce time the input line has when the flag is b
WindowFor(b) == IF b THEN DEBOUNCE_TIME ELSE 0

C22_EnabledImpliesWindow == isDebounce => gpioDebounce = DEBOUNCE_TIME

\* the same with no call of isDebounce_store in progress
C22_EnabledImpliesWindowBetweenCalls ==
    (isDebounce /\ apc = "idle") => gpioDebounce = DEBOUNCE_TIME

\* a step of one of the sysfs callbacks, lines 54-105
accessor_step ==
    \/ numWattHours_show
    \/ \E text \in CountInputs : numWattHours_store(text)
    \/ ledOn_show
    \/ lastTime_show_sec
    \/ lastTime_show_nsec
    \/ diffTime_show_sec
    \/ diffTime_show_nsec
    \/ isDebounce_show
    \/ \E text \in DebounceInputs : isDebounce_store_95(text)
    \/ isDebounce_store_96
    \/ isDebounce_store_97
    \/ isDebounce_store_98

\* C23: no step of the interrupt handler changes isDebounce or the input
\* line's debounce time, and no step of a sysfs callback, show or store,
\* changes ts_last, ts_diff, ledOn or the LED line.
C23_WriterSeparation ==
    [][/\ tomasgpio_irq_handler => UNCHANGED <<isDebounce, gpioDebounce>>
       /\ accessor_step => UNCHANGED <<ts_last, ts_diff, ledOn, gpioLED>>]_vars

C23_Witness ==
    /\ nPulses = MaxPulses
    /\ hpc = "idle"
    /\ op = "isDebounce_store" /\ apc = "idle"
    /\ ~isDebounce
    /\ gpioDebounce = 0
    /\ ts_diff # Timespec(0, 0)

\* the text SECONDS.NNNNNNNNN and a newline
IntervalText(t) ==
    /\ Len(t) >= 12
    /\ t[Len(t)] = "\n"
    /\ t[Len(t) - 10] = "."
    /\ AllDigits(SubSeq(t, 1, Len(t) - 11))
    /\ AllDigits(SubSeq(t, Len(t) - 9, Len(t) - 1))

\* the difference later - earlier with the borrow made by hand
BorrowDiff(later, earlier) ==
    IF later.tv_nsec < earlier.tv_nsec
    THEN Timespec(later.tv_sec - earlier.tv_sec - 1,
                  later.tv_nsec + NSEC_PER_SEC - earlier.tv_nsec)
    ELSE Timespec(later.tv_sec - earlier.tv_sec, later.tv_nsec - earlier.tv_nsec)

\* the parts of C24 that do not depend on the order of the clock's readings
C24_SubSecondNormalised ==
    /\ ts_diff.tv_nsec \in 0..(NSEC_PER_SEC - 1)
    /\ (hpc = "idle" /\ nPulses > 0) => ts_diff = BorrowDiff(ts_current, prevLast)
    /\ (op = "diffTime_show" /\ apc = "idle") => IntervalText(buf) /\ ret = Len(buf)

\* C24: in every state ts_diff.tv_nsec is in 0..999999999 and ts_diff.tv_sec
\* is not negative; after an invocation ts_diff is the difference of the two
\* latest readings, a second borrowed when the later reading has the smaller
\* tv_nsec; diffTime_show prints SECONDS.NNNNNNNNN, nine digits after the
\* point.
C24_IntervalNormalised ==
    /\ ts_diff.tv_nsec \in 0..(NSEC_PER_SEC - 1)
    /\ ts_diff.tv_sec >= 0
    /\ (hpc = "idle" /\ nPulses > 0) => ts_diff = BorrowDiff(ts_current, prevLast)
    /\ (op = "diffTime_show" /\ apc = "idle") => IntervalText(buf) /\ ret = Len(buf)

=============================================================================
